---- MODULE Spec2Model ----
(***************************************************************************)
(* Model of bionic's libc/bionic/vdso.cpp (aarch64 build): the vdso        *)
(* function pointer table, its one-shot initializer __libc_init_vdso and   *)
(* the two trampolines clock_gettime and gettimeofday.                     *)
(*                                                                         *)
(* Addresses are machine words; the model keeps the word arithmetic of the *)
(* code (uintptr_t / ElfW(Addr) additions wrap) with a small modulus.      *)
(* The kernel-exposed object is memory the initializer reads: its tables   *)
(* are either fixed in advance (image.known) or chosen when they are read. *)
(***************************************************************************)
EXTENDS Integers, Sequences, FiniteSets, TLC

(* ------------------------------ bounds -------------------------------- *)
\* number of distinct machine-word values (stands for 2^64)
WordMod == 4
\* largest e_shnum, e_phnum, number of dynamic entries before the terminator,
\* and number of Elf Sym entries in the dynamic symbol table
MaxShdr == 2
MaxPhdr == 3
MaxDyn == 2
MaxSyms == 2
\* number of threads calling the trampolines
NThreads == 2

(* --------------------------- program constants ------------------------ *)
nullptr == 0
\* sizeof(ElfW(Sym)) on a 64-bit target
SizeofSym == 24
VDSO_CLOCK_GETTIME == 0
VDSO_GETTIMEOFDAY == 1
VDSO_END == 2
VDSO_CLOCK_GETTIME_SYMBOL == "__kernel_clock_gettime"
VDSO_GETTIMEOFDAY_SYMBOL == "__kernel_gettimeofday"
\* link-time addresses of the two syscall wrappers: distinct and non-null
__clock_gettime == 1
__gettimeofday == 2

Word == 0 .. (WordMod - 1)
Slots == VDSO_CLOCK_GETTIME .. (VDSO_END - 1)
Threads == 1 .. NThreads

\* unsigned machine-word addition and subtraction
WAdd(a, b) == (a + b) % WordMod
WSub(a, b) == (a + WordMod - (b % WordMod)) % WordMod

\* strcmp only as far as the code uses it: 0 exactly when the strings are equal
strcmp(a, b) == IF a = b THEN 0 ELSE 1

SeqsUpTo(S, n) == UNION {[1 .. k -> S] : k \in 0 .. n}

vdso_entries_template ==
  [j \in Slots |->
     IF j = VDSO_CLOCK_GETTIME
       THEN [name |-> VDSO_CLOCK_GETTIME_SYMBOL, fn |-> __clock_gettime]
       ELSE [name |-> VDSO_GETTIMEOFDAY_SYMBOL, fn |-> __gettimeofday]]

\* a fresh anonymous mapping is zero-filled
ZeroPage == [j \in Slots |-> [name |-> "", fn |-> nullptr]]

AllocFailed == "failed to allocate vdso function pointer table"
MprotectFailed == "failed to mprotect PROT_READ vdso function pointer table"
VmaName == "vdso function pointer table"

(* ------------------- the kernel-exposed object's tables ---------------- *)
\* small file offsets and dynamic-entry pointers
Offsets == {0, 1}

ShSizes ==
  {0, SizeofSym - 1, MaxSyms * SizeofSym + 1} \cup {k * SizeofSym : k \in 1 .. MaxSyms}
ShdrEntries ==
  {[sh_type |-> "SHT_DYNSYM", sh_size |-> s] : s \in ShSizes}
    \cup {[sh_type |-> "SHT_STRTAB", sh_size |-> SizeofSym]}
ShdrTables == SeqsUpTo(ShdrEntries, MaxShdr)

PhdrEntries ==
  {[p_type |-> "PT_LOAD", p_offset |-> o, p_vaddr |-> v] : o \in Offsets, v \in Offsets}
    \cup {[p_type |-> "PT_DYNAMIC", p_offset |-> o, p_vaddr |-> 0] : o \in Offsets}
    \cup {[p_type |-> "PT_NOTE", p_offset |-> 0, p_vaddr |-> 0]}
PhdrTables == SeqsUpTo(PhdrEntries, MaxPhdr)

DT_NULL_entry == [d_tag |-> "DT_NULL", d_ptr |-> 0]
DynEntries ==
  {[d_tag |-> t, d_ptr |-> p] : t \in {"DT_STRTAB", "DT_SYMTAB"}, p \in Offsets}
    \cup {[d_tag |-> "DT_HASH", d_ptr |-> 0], DT_NULL_entry}
\* the dynamic section always ends in a DT_NULL entry; one may come earlier
DynTables == {Append(b, DT_NULL_entry) : b \in SeqsUpTo(DynEntries, MaxDyn)}

\* a symbol table entry as the scan sees it: name is the string found at
\* strtab + st_name
SymbolNames ==
  {VDSO_CLOCK_GETTIME_SYMBOL, VDSO_GETTIMEOFDAY_SYMBOL, "__kernel_clock_getres"}
SymEntries == {[name |-> n, st_value |-> v] : n \in SymbolNames, v \in Word}

\* an image whose contents are not fixed in advance
UnknownImage ==
  [known |-> FALSE, shdr |-> <<>>, phdr |-> <<>>, dyn |-> <<>>, syms |-> <<>>]

\* well-formed images with one loadable segment and one wanted symbol
EndToEndImages ==
  {[known |-> TRUE,
    shdr |-> <<[sh_type |-> "SHT_DYNSYM", sh_size |-> SizeofSym]>>,
    phdr |-> <<[p_type |-> "PT_LOAD", p_offset |-> o, p_vaddr |-> v],
               [p_type |-> "PT_DYNAMIC", p_offset |-> d, p_vaddr |-> 0]>>,
    dyn |-> <<[d_tag |-> "DT_STRTAB", d_ptr |-> p],
              [d_tag |-> "DT_SYMTAB", d_ptr |-> p], DT_NULL_entry>>,
    syms |-> <<[name |-> vdso_entries_template[j].name, st_value |-> s]>>] :
     o \in Offsets, v \in Word, d \in Offsets, p \in Offsets, j \in Slots, s \in Word}

\* the images of the process-lifetime specification: segment mapped at bias 0
ProcessImages == {im \in EndToEndImages :
                    /\ im.phdr[1].p_offset = 0 /\ im.phdr[1].p_vaddr = 0
                    /\ im.phdr[2].p_offset = 1 /\ im.dyn[1].d_ptr = 1}

VARIABLES
  pc,              \* position of the startup thread in __libc_init_vdso
  vdso_entries,    \* the static pointer: "nullptr", "MAP_FAILED" or "page"
  table,           \* contents of the page vdso_entries points to
  prot,            \* protection of that page
  fatal,           \* message passed to __libc_fatal, "" when it was not called
  mprotect_rc,     \* return value of the mprotect call, 1 before the call
  vma_name,        \* name given to the region by prctl(PR_SET_VMA)
  at_sysinfo_ehdr, \* the auxiliary vector's AT_SYSINFO_EHDR value
  image,           \* the kernel-exposed object in memory
  frame,           \* locals of __libc_init_vdso_entries
  descriptor,      \* history: what discovery has decoded of the object
  finalized,       \* history: the table when __libc_init_vdso returned
  threads          \* state of each thread's trampoline call

vars == <<pc, vdso_entries, table, prot, fatal, mprotect_rc, vma_name,
          at_sysinfo_ehdr, image, frame, descriptor, finalized, threads>>

NoFrame == [vdso_ehdr_addr |-> 0, symbol_count |-> 0, vdso_addr |-> 0,
            vdso_dyn |-> nullptr, strtab |-> nullptr, symtab |-> nullptr]

NoLoad == [p_offset |-> 0, p_vaddr |-> 0]
NoMatch == [count |-> 0, st_value |-> 0]
NoDescriptor ==
  [parsed |-> {}, kinds |-> {}, symbol_count |-> 0, first_load |-> NoLoad,
   load_count |-> 0, load_bias |-> 0, matches |-> [j \in Slots |-> NoMatch]]

IdleThread == [pc |-> "idle", op |-> "none", args |-> "none", fnptr |-> nullptr,
               callee |-> nullptr, passed |-> "none", result |-> 0, ret |-> 0]

(* ------------------ __libc_init_vdso_entries: the loops ---------------- *)
\* body of the section-header loop
ShdrStep(symbol_count, sh) ==
  IF sh.sh_type = "SHT_DYNSYM" THEN sh.sh_size \div SizeofSym ELSE symbol_count

RECURSIVE ShdrLoop(_, _, _)
ShdrLoop(shdr, i, symbol_count) ==
  IF i > Len(shdr) THEN symbol_count
  ELSE ShdrLoop(shdr, i + 1, ShdrStep(symbol_count, shdr[i]))

SymbolCount(shdr) == ShdrLoop(shdr, 1, 0)

\* body of the program-header loop; acc holds vdso_addr and vdso_dyn
PhdrStep(ehdr_addr, ph, acc) ==
  IF ph.p_type = "PT_DYNAMIC"
    THEN [acc EXCEPT !.vdso_dyn = WAdd(ehdr_addr, ph.p_offset)]
  ELSE IF ph.p_type = "PT_LOAD"
    THEN [acc EXCEPT !.vdso_addr = WSub(WAdd(ehdr_addr, ph.p_offset), ph.p_vaddr)]
  ELSE acc

RECURSIVE PhdrLoop(_, _, _, _)
PhdrLoop(ehdr_addr, phdr, i, acc) ==
  IF i > Len(phdr) THEN acc
  ELSE PhdrLoop(ehdr_addr, phdr, i + 1, PhdrStep(ehdr_addr, phdr[i], acc))

Segments(ehdr_addr, phdr) ==
  PhdrLoop(ehdr_addr, phdr, 1, [vdso_addr |-> 0, vdso_dyn |-> nullptr])

\* body of the dynamic-section loop; acc holds strtab and symtab
DynStep(vdso_addr, d, acc) ==
  IF d.d_tag = "DT_STRTAB" THEN [acc EXCEPT !.strtab = WAdd(vdso_addr, d.d_ptr)]
  ELSE IF d.d_tag = "DT_SYMTAB" THEN [acc EXCEPT !.symtab = WAdd(vdso_addr, d.d_ptr)]
  ELSE acc

RECURSIVE DynLoop(_, _, _, _)
DynLoop(vdso_addr, dyn, d, acc) ==
  IF dyn[d].d_tag = "DT_NULL" THEN acc
  ELSE DynLoop(vdso_addr, dyn, d + 1, DynStep(vdso_addr, dyn[d], acc))

Tables(vdso_addr, dyn) ==
  DynLoop(vdso_addr, dyn, 1, [strtab |-> nullptr, symtab |-> nullptr])

\* mutants of MatchSymbol: the name of slot 0 compared for every slot; and a
\* slot written only while it still holds its fallback
MatchSymbol_slot0_name(entries, vdso_addr, sym) ==
  [j \in Slots |->
     IF strcmp(entries[VDSO_CLOCK_GETTIME].name, sym.name) = 0
       THEN [entries[j] EXCEPT !.fn = WAdd(vdso_addr, sym.st_value)]
       ELSE entries[j]]

MatchSymbol_first_wins(entries, vdso_addr, sym) ==
  [j \in Slots |->
     IF /\ strcmp(entries[j].name, sym.name) = 0
        /\ entries[j].fn = vdso_entries_template[j].fn
       THEN [entries[j] EXCEPT !.fn = WAdd(vdso_addr, sym.st_value)]
       ELSE entries[j]]

\* the inner loop over the slots for one symbol table entry
MatchSymbol(entries, vdso_addr, sym) ==
  [j \in Slots |->
     IF strcmp(entries[j].name, sym.name) = 0
       THEN [entries[j] EXCEPT !.fn = WAdd(vdso_addr, sym.st_value)]
       ELSE entries[j]]

RECURSIVE SymLoop(_, _, _, _, _)
SymLoop(entries, vdso_addr, syms, i, symbol_count) ==
  IF i > symbol_count THEN entries
  ELSE SymLoop(MatchSymbol(entries, vdso_addr, syms[i]), vdso_addr, syms, i + 1,
               symbol_count)

Resolve(entries, vdso_addr, syms, symbol_count) ==
  SymLoop(entries, vdso_addr, syms, 1, symbol_count)

\* mutants of the early returns: no check for an absent object; no check for
\* a missing dynamic-section descriptor
NoVdso_unchecked(vdso_ehdr) == FALSE
NoSegments_addr_only(seg) == seg.vdso_addr = 0

\* the four early returns
NoVdso(vdso_ehdr) == vdso_ehdr = nullptr
NoSymbols(symbol_count) == symbol_count = 0
NoSegments(seg) == seg.vdso_addr = 0 \/ seg.vdso_dyn = nullptr
NoTables(tabs) == tabs.strtab = nullptr \/ tabs.symtab = nullptr

(* ------------- what the object holds, for the history variable --------- *)
RECURSIVE DynPrefix(_, _)
DynPrefix(dyn, d) ==
  IF dyn[d].d_tag = "DT_NULL" THEN {} ELSE {dyn[d].d_tag} \cup DynPrefix(dyn, d + 1)

Loads(phdr) == SelectSeq(phdr, LAMBDA ph : ph.p_type = "PT_LOAD")

MatchSummary(syms, name) ==
  LET idx == {i \in 1 .. Len(syms) : syms[i].name = name}
      last == CHOOSE i \in idx : \A k \in idx : k <= i
  IN  IF idx = {} THEN NoMatch
      ELSE [count |-> Cardinality(idx), st_value |-> syms[last].st_value]

\* memory contents the reads can return
ShdrChoices == IF image.known THEN {image.shdr} ELSE ShdrTables
PhdrChoices == IF image.known THEN {image.phdr} ELSE PhdrTables
DynChoices == IF image.known THEN {image.dyn} ELSE DynTables
SymChoices(symbol_count) ==
  IF image.known THEN {SubSeq(image.syms, 1, symbol_count)}
  ELSE [1 .. symbol_count -> SymEntries]

(* ------------------------------ startup -------------------------------- *)
Others == <<vma_name, at_sysinfo_ehdr, image, finalized, threads>>

\* return from __libc_init_vdso_entries: its locals are gone
ReturnFromEntries == pc' = "mprotect" /\ frame' = NoFrame

\* mutant of Mmap: MAP_FAILED is not checked
Mmap_unchecked ==
  /\ pc = "start"
  /\ \E ok \in BOOLEAN :
       /\ vdso_entries' = IF ok THEN "page" ELSE "MAP_FAILED"
       /\ prot' = IF ok THEN "PROT_READ|PROT_WRITE" ELSE prot
  /\ table' = ZeroPage
  /\ pc' = "memcpy"
  /\ UNCHANGED <<fatal, mprotect_rc, frame, descriptor, Others>>

Mmap ==
  /\ pc = "start"
  /\ \E ok \in BOOLEAN :
       IF ok
         THEN /\ vdso_entries' = "page"
              /\ table' = ZeroPage
              /\ prot' = "PROT_READ|PROT_WRITE"
              /\ pc' = "memcpy"
              /\ fatal' = fatal
         ELSE /\ vdso_entries' = "MAP_FAILED"
              /\ fatal' = AllocFailed
              /\ pc' = "aborted"
              /\ UNCHANGED <<table, prot>>
  /\ UNCHANGED <<mprotect_rc, frame, descriptor, Others>>

Memcpy ==
  /\ pc = "memcpy"
  /\ table' = vdso_entries_template
  /\ pc' = "getauxval"
  /\ UNCHANGED <<vdso_entries, prot, fatal, mprotect_rc, frame, descriptor, Others>>

GetAuxval ==
  /\ pc = "getauxval"
  /\ IF NoVdso(at_sysinfo_ehdr)
       THEN ReturnFromEntries
       ELSE /\ frame' = [frame EXCEPT !.vdso_ehdr_addr = at_sysinfo_ehdr]
            /\ pc' = "sections"
  /\ UNCHANGED <<vdso_entries, table, prot, fatal, mprotect_rc, descriptor, Others>>

CountSymbols ==
  /\ pc = "sections"
  /\ \E shdr \in ShdrChoices :
       LET n == SymbolCount(shdr) IN
       /\ descriptor' =
            [descriptor EXCEPT
               !.parsed = @ \cup {"shdr"},
               !.kinds = @ \cup ({shdr[i].sh_type : i \in 1 .. Len(shdr)}
                                   \cap {"SHT_DYNSYM"}),
               !.symbol_count = n]
       /\ IF NoSymbols(n)
            THEN ReturnFromEntries
            ELSE /\ frame' = [frame EXCEPT !.symbol_count = n]
                 /\ pc' = "segments"
  /\ UNCHANGED <<vdso_entries, table, prot, fatal, mprotect_rc, Others>>

FindDynamic ==
  /\ pc = "segments"
  /\ \E phdr \in PhdrChoices :
       LET seg == Segments(frame.vdso_ehdr_addr, phdr)
           loads == Loads(phdr)
       IN
       /\ descriptor' =
            [descriptor EXCEPT
               !.parsed = @ \cup {"phdr"},
               !.kinds = @ \cup ({phdr[i].p_type : i \in 1 .. Len(phdr)}
                                   \cap {"PT_DYNAMIC", "PT_LOAD"}),
               !.first_load =
                  IF loads = <<>> THEN NoLoad
                  ELSE [p_offset |-> loads[1].p_offset, p_vaddr |-> loads[1].p_vaddr],
               !.load_count = Len(loads),
               !.load_bias = seg.vdso_addr]
       /\ IF NoSegments(seg)
            THEN ReturnFromEntries
            ELSE /\ frame' = [frame EXCEPT !.vdso_addr = seg.vdso_addr,
                                           !.vdso_dyn = seg.vdso_dyn]
                 /\ pc' = "dynamic"
  /\ UNCHANGED <<vdso_entries, table, prot, fatal, mprotect_rc, Others>>

FindTables ==
  /\ pc = "dynamic"
  /\ \E dyn \in DynChoices :
       LET tabs == Tables(frame.vdso_addr, dyn) IN
       /\ descriptor' =
            [descriptor EXCEPT
               !.parsed = @ \cup {"dyn"},
               !.kinds = @ \cup (DynPrefix(dyn, 1) \cap {"DT_STRTAB", "DT_SYMTAB"})]
       /\ IF NoTables(tabs)
            THEN ReturnFromEntries
            ELSE /\ frame' = [frame EXCEPT !.strtab = tabs.strtab,
                                           !.symtab = tabs.symtab]
                 /\ pc' = "symbols"
  /\ UNCHANGED <<vdso_entries, table, prot, fatal, mprotect_rc, Others>>

ResolveSymbols ==
  /\ pc = "symbols"
  /\ \E syms \in SymChoices(frame.symbol_count) :
       /\ table' = Resolve(table, frame.vdso_addr, syms, frame.symbol_count)
       /\ descriptor' =
            [descriptor EXCEPT
               !.parsed = @ \cup {"sym"},
               !.matches = [j \in Slots |->
                              MatchSummary(syms, vdso_entries_template[j].name)]]
  /\ ReturnFromEntries
  /\ UNCHANGED <<vdso_entries, prot, fatal, mprotect_rc, Others>>

\* mutant of Mprotect: the protection is asked to stay PROT_READ|PROT_WRITE
Mprotect_stays_writable ==
  /\ pc = "mprotect"
  /\ \E rc \in {0, -1} :
       /\ mprotect_rc' = rc
       /\ IF rc = -1
            THEN fatal' = MprotectFailed /\ pc' = "aborted"
            ELSE fatal' = fatal /\ pc' = "prctl"
  /\ UNCHANGED <<vdso_entries, table, prot, frame, descriptor, Others>>

Mprotect ==
  /\ pc = "mprotect"
  /\ \E rc \in {0, -1} :
       /\ mprotect_rc' = rc
       /\ IF rc = -1
            THEN /\ fatal' = MprotectFailed
                 /\ pc' = "aborted"
                 /\ prot' = prot
            ELSE /\ prot' = "PROT_READ"
                 /\ pc' = "prctl"
                 /\ fatal' = fatal
  /\ UNCHANGED <<vdso_entries, table, frame, descriptor, Others>>

\* prctl(PR_SET_VMA) may be unsupported; its result is ignored
Prctl ==
  /\ pc = "prctl"
  /\ \E supported \in BOOLEAN :
       vma_name' = IF supported THEN VmaName ELSE vma_name
  /\ pc' = "done"
  /\ finalized' = table
  /\ UNCHANGED <<vdso_entries, table, prot, fatal, mprotect_rc, at_sysinfo_ehdr,
                 image, frame, descriptor, threads>>

InitCommon ==
  /\ pc = "start"
  /\ vdso_entries = "nullptr"
  /\ table = ZeroPage
  /\ prot = "unmapped"
  /\ fatal = ""
  /\ mprotect_rc = 1
  /\ vma_name = ""
  /\ frame = NoFrame
  /\ descriptor = NoDescriptor
  /\ finalized = ZeroPage
  /\ threads = [t \in Threads |-> IdleThread]

Init ==
  /\ InitCommon
  /\ at_sysinfo_ehdr \in Word
  /\ image \in {UnknownImage} \cup EndToEndImages

Next ==
  \/ Mmap
  \/ Memcpy
  \/ GetAuxval
  \/ CountSymbols
  \/ FindDynamic
  \/ FindTables
  \/ ResolveSymbols
  \/ Mprotect
  \/ Prctl

Spec == Init /\ [][Next]_vars

(* ---------------------- after startup: the threads --------------------- *)
ClockGettimeArgs == {<<"CLOCK_REALTIME", "tp">>, <<"CLOCK_MONOTONIC", "tp">>}
GettimeofdayArgs == {<<"tv", "tz">>, <<"tv", "nullptr">>}
CalleeResults == {0, -1}

\* mutant of gettimeofday_fnptr: the other slot is loaded
gettimeofday_fnptr_wrong_slot(entries) == entries[VDSO_CLOCK_GETTIME].fn

\* the load each trampoline does
clock_gettime_fnptr(entries) == entries[VDSO_CLOCK_GETTIME].fn
gettimeofday_fnptr(entries) == entries[VDSO_GETTIMEOFDAY].fn

\* what the indirect call is given and what the trampoline returns
ForwardedArgs(args) == args
ReturnedValue(result) == result

Startup == <<vdso_entries, prot, fatal, mprotect_rc, vma_name, at_sysinfo_ehdr,
             image, frame, descriptor, finalized>>

Load(t, op, args, fnptr) ==
  /\ pc = "done"
  /\ threads[t].pc \in {"idle", "returned"}
  /\ threads' = [threads EXCEPT ![t] =
                   [pc |-> "loaded", op |-> op, args |-> args, fnptr |-> fnptr,
                    callee |-> nullptr, passed |-> <<>>, result |-> 0, ret |-> 0]]
  /\ UNCHANGED <<pc, table, Startup>>

\* the indirect call and the return; a call through a null pointer faults
Call(t, op) ==
  /\ pc = "done"
  /\ threads[t].pc = "loaded"
  /\ threads[t].op = op
  /\ IF threads[t].fnptr = nullptr
       THEN pc' = "segv" /\ threads' = threads
       ELSE /\ pc' = pc
            /\ \E r \in CalleeResults :
                 threads' = [threads EXCEPT ![t] =
                               [@ EXCEPT !.pc = "returned",
                                         !.callee = threads[t].fnptr,
                                         !.passed = ForwardedArgs(threads[t].args),
                                         !.result = r,
                                         !.ret = ReturnedValue(r)]]
  /\ UNCHANGED <<table, Startup>>

clock_gettime_load(t) ==
  \E a \in ClockGettimeArgs : Load(t, "clock_gettime", a, clock_gettime_fnptr(table))

clock_gettime_call(t) == Call(t, "clock_gettime")

gettimeofday_load(t) ==
  \E a \in GettimeofdayArgs : Load(t, "gettimeofday", a, gettimeofday_fnptr(table))

gettimeofday_call(t) == Call(t, "gettimeofday")

\* a store into the table's page by any code of the process: it takes effect
\* on a writable page and faults on a read-only one
StoreToTable(t) ==
  /\ pc = "done"
  /\ \E j \in Slots, v \in Word :
       IF prot = "PROT_READ|PROT_WRITE"
         THEN table' = [table EXCEPT ![j].fn = v] /\ pc' = pc
         ELSE table' = table /\ pc' = "segv"
  /\ UNCHANGED <<threads, Startup>>

InitProcess ==
  /\ InitCommon
  /\ at_sysinfo_ehdr \in {0, 1}
  /\ image \in ProcessImages

NextProcess ==
  \/ Mmap
  \/ Memcpy
  \/ GetAuxval
  \/ CountSymbols
  \/ FindDynamic
  \/ FindTables
  \/ ResolveSymbols
  \/ Mprotect
  \/ Prctl
  \/ \E t \in Threads : clock_gettime_load(t)
  \/ \E t \in Threads : clock_gettime_call(t)
  \/ \E t \in Threads : gettimeofday_load(t)
  \/ \E t \in Threads : gettimeofday_call(t)
  \/ \E t \in Threads : StoreToTable(t)

SpecProcess == InitProcess /\ [][NextProcess]_vars

(* ------------------------------- claims -------------------------------- *)
\* __libc_init_vdso has returned (the process may since have been killed by
\* a fault)
Returned == pc \in {"done", "segv"}

\* the load bias of a loadable segment of the object at at_sysinfo_ehdr
SegmentBias(load) == WSub(WAdd(at_sysinfo_ehdr, load.p_offset), load.p_vaddr)

\* C1: once __libc_init_vdso has returned, both slots hold a non-null
\* address, whatever object the initializer was given.
C1_SlotsNonNull == Returned => \A j \in Slots : table[j].fn # nullptr

\* C2: if the auxiliary vector reports no object (zero), then after
\* __libc_init_vdso returns each slot equals its fallback address and no part
\* of the object has been parsed.
C2_AbsentObjectKeepsFallbacks ==
  (Returned /\ at_sysinfo_ehdr = 0) =>
     /\ table[VDSO_CLOCK_GETTIME].fn = __clock_gettime
     /\ table[VDSO_GETTIMEOFDAY].fn = __gettimeofday
     /\ descriptor = NoDescriptor

C2_Witness ==
  /\ pc = "done"
  /\ at_sysinfo_ehdr = 0
  /\ table = vdso_entries_template
  /\ descriptor.parsed = {}

\* C3: if the scanned symbol table holds a symbol with one slot's wanted name
\* and none with the other slot's, then after initialization no slot but the
\* matching one differs from its fallback, and both names are unchanged.
C3_OnlyMatchingSlotChanges ==
  (Returned /\ "sym" \in descriptor.parsed) =>
     \A j, k \in Slots :
        (j # k /\ descriptor.matches[j].count > 0 /\ descriptor.matches[k].count = 0) =>
           /\ \A s \in Slots : table[s].fn # vdso_entries_template[s].fn => s = j
           /\ table[k].fn = vdso_entries_template[k].fn
           /\ \A s \in Slots : table[s].name = vdso_entries_template[s].name

C3_Witness ==
  /\ pc = "done"
  /\ ~image.known
  /\ descriptor.matches[VDSO_GETTIMEOFDAY].count > 0
  /\ descriptor.matches[VDSO_CLOCK_GETTIME].count = 0
  /\ descriptor.symbol_count = MaxSyms
  /\ table[VDSO_GETTIMEOFDAY].fn # __gettimeofday
  /\ table[VDSO_CLOCK_GETTIME].fn = __clock_gettime

\* C4: if several scanned entries carry one slot's wanted name, then after
\* initialization that slot holds the bias-translated value of the one with
\* the highest index.
C4_LastMatchWins ==
  Returned =>
     \A j \in Slots :
        descriptor.matches[j].count >= 2 =>
           table[j].fn = WAdd(descriptor.load_bias, descriptor.matches[j].st_value)

C4_Witness ==
  /\ pc = "done"
  /\ descriptor.matches[VDSO_CLOCK_GETTIME].count >= 2
  /\ table[VDSO_CLOCK_GETTIME].fn
       = WAdd(descriptor.load_bias, descriptor.matches[VDSO_CLOCK_GETTIME].st_value)
  /\ table[VDSO_CLOCK_GETTIME].fn # __clock_gettime

\* the object has a dynamic symbol section with at least one entry, a
\* dynamic-section descriptor, exactly one loadable segment, and string-table
\* and symbol-table entries, all at non-null addresses
SingleSegmentObject(im) ==
  /\ im.known
  /\ at_sysinfo_ehdr # 0
  /\ \E i \in 1 .. Len(im.shdr) :
        im.shdr[i].sh_type = "SHT_DYNSYM" /\ im.shdr[i].sh_size >= SizeofSym
  /\ \E i \in 1 .. Len(im.phdr) :
        /\ im.phdr[i].p_type = "PT_DYNAMIC"
        /\ WAdd(at_sysinfo_ehdr, im.phdr[i].p_offset) # nullptr
  /\ Len(Loads(im.phdr)) = 1
  /\ \A t \in {"DT_STRTAB", "DT_SYMTAB"} :
        \E i \in 1 .. Len(im.dyn) :
           /\ im.dyn[i].d_tag = t
           /\ WAdd(SegmentBias(Loads(im.phdr)[1]), im.dyn[i].d_ptr) # nullptr

\* C5: for an object at base B with one loadable segment (offset O, address
\* V), a symbol with a slot's wanted name and value S resolves that slot to
\* B + O - V + S.
C5_SingleSegmentResolution ==
  (Returned /\ SingleSegmentObject(image)) =>
     \A j \in Slots : \A i \in 1 .. Len(image.syms) :
        image.syms[i].name = vdso_entries_template[j].name =>
           table[j].fn = WAdd(SegmentBias(Loads(image.phdr)[1]), image.syms[i].st_value)

\* C6: the table is writable only between its allocation and the protection
\* change; after __libc_init_vdso has returned the protection is read-only,
\* no step changes the protection or the table, and a store to the region
\* faults.
C6_ReadOnlyAfterInit ==
  /\ [](Returned => prot = "PROT_READ")
  /\ [](prot = "PROT_READ|PROT_WRITE" =>
          pc \in {"memcpy", "getauxval", "sections", "segments", "dynamic",
                  "symbols", "mprotect", "aborted"})
  /\ [][Returned => (prot' = prot /\ table' = table /\ table = finalized)]_vars

C6_Witness ==
  /\ pc = "segv"
  /\ prot = "PROT_READ"
  /\ table = finalized
  /\ table # vdso_entries_template
  /\ \A t \in Threads : threads[t].pc = "returned"

\* C7: a failed allocation or a failed protection change ends in
\* __libc_fatal: initialization never completes without a table or with a
\* writable one, and after a failed allocation nothing is populated or parsed.
C7_FatalOnResourceFailure ==
  /\ vdso_entries = "MAP_FAILED" =>
        /\ pc = "aborted"
        /\ fatal = AllocFailed
        /\ table = ZeroPage
        /\ prot = "unmapped"
        /\ descriptor = NoDescriptor
  /\ mprotect_rc = -1 => (pc = "aborted" /\ fatal = MprotectFailed)
  /\ fatal # "" => pc = "aborted"
  /\ pc \in {"prctl", "done", "segv"} =>
        (vdso_entries = "page" /\ prot = "PROT_READ" /\ fatal = "")

C7_Witness ==
  /\ pc = "aborted"
  /\ fatal = MprotectFailed
  /\ prot = "PROT_READ|PROT_WRITE"
  /\ "sym" \in descriptor.parsed

\* discovery ended at one of the early returns that follow the object's
\* detection, for one of the listed reasons
DiscoveryAborted ==
  /\ at_sysinfo_ehdr # 0
  /\ pc \in {"mprotect", "prctl", "done", "segv", "aborted"}
  /\ vdso_entries = "page"
  /\ \/ "SHT_DYNSYM" \notin descriptor.kinds
     \/ descriptor.symbol_count = 0
     \/ "PT_DYNAMIC" \notin descriptor.kinds
     \/ descriptor.load_count = 0
     \/ "DT_STRTAB" \notin descriptor.kinds
     \/ "DT_SYMTAB" \notin descriptor.kinds

\* C8: if the object is present but discovery ends before the symbol scan
\* (no dynamic symbol section or no symbols; no dynamic-section or no
\* loadable-segment descriptor; no string-table or no symbol-table entry),
\* discovery does not terminate the process (only a failed mprotect still
\* can), both slots keep their fallbacks, and the table is read-only when
\* __libc_init_vdso returns.
C8_DiscoveryFailureKeepsFallbacks ==
  DiscoveryAborted =>
     /\ "sym" \notin descriptor.parsed
     /\ table = vdso_entries_template
     /\ pc = "aborted" => (mprotect_rc = -1 /\ fatal = MprotectFailed)
     /\ pc # "aborted" => fatal = ""
     /\ Returned => prot = "PROT_READ"

C8_Witness ==
  /\ pc = "done"
  /\ at_sysinfo_ehdr # 0
  /\ descriptor.parsed = {"shdr", "phdr", "dyn"}
  /\ "DT_STRTAB" \in descriptor.kinds
  /\ "DT_SYMTAB" \notin descriptor.kinds
  /\ table = vdso_entries_template
  /\ prot = "PROT_READ"

\* C9: every trampoline call made after initialization dispatches to the
\* address its own slot held when initialization completed, passes the
\* caller's arguments and returns the callee's result unchanged, and no step
\* after initialization writes the table.
C9_TrampolinesDispatchFinalized ==
  /\ [](\A t \in Threads :
          /\ threads[t].pc # "idle" =>
                /\ Returned
                /\ threads[t].op = "clock_gettime" =>
                      threads[t].fnptr = finalized[VDSO_CLOCK_GETTIME].fn
                /\ threads[t].op = "gettimeofday" =>
                      threads[t].fnptr = finalized[VDSO_GETTIMEOFDAY].fn
          /\ threads[t].pc = "returned" =>
                /\ threads[t].callee = threads[t].fnptr
                /\ threads[t].passed = threads[t].args
                /\ threads[t].ret = threads[t].result)
  /\ [][Returned => (table' = table /\ finalized' = finalized)]_vars

C9_Witness ==
  /\ pc = "done"
  /\ threads[1].pc = "returned" /\ threads[1].op = "clock_gettime"
  /\ threads[2].pc = "returned" /\ threads[2].op = "gettimeofday"
  /\ threads[1].callee = __clock_gettime
  /\ threads[2].callee \notin {__clock_gettime, __gettimeofday}
  /\ threads[2].passed = <<"tv", "nullptr">>
  /\ threads[2].ret = -1

\* C10: with more than one loadable-segment descriptor, the load bias that
\* translates the string-table address, the symbol-table address and the
\* resolved symbol values is that of the first one in program-header order.
C10_FirstLoadBias ==
  (descriptor.load_count > 1 /\ "phdr" \in descriptor.parsed) =>
     /\ descriptor.load_bias = SegmentBias(descriptor.first_load)
     /\ pc = "symbols" =>
           /\ \E p \in Offsets :
                 frame.strtab = WAdd(SegmentBias(descriptor.first_load), p)
           /\ \E p \in Offsets :
                 frame.symtab = WAdd(SegmentBias(descriptor.first_load), p)
     /\ Returned =>
           \A j \in Slots :
              descriptor.matches[j].count > 0 =>
                 table[j].fn = WAdd(SegmentBias(descriptor.first_load),
                                    descriptor.matches[j].st_value)
====
